---- MODULE Spec2Model ----
(***************************************************************************)
(* A model of typedoc's Converter (src/lib/converter/converter.ts): the    *)
(* node dispatch table, the two priority-ordered type converter chains,    *)
(* the cycle-safe convertNode, convertType, and the convert pipeline       *)
(* (begin, compile, resolve, end).                                         *)
(***************************************************************************)
EXTENDS Integers, Sequences, FiniteSets, TLC

(* ------------------------------ bounds -------------------------------- *)

\* Type converter priorities range over 0..MaxPriority.
MaxPriority == 1

\* The compiler nodes are 1..NumNodes.
NumNodes == 4

\* A converter stops creating reflections when the project holds this many.
MaxReflections == 2

\* The program reports at most this many diagnostics, over all categories.
MaxDiag == 2

(* ----------------------------- universe ------------------------------- *)

None == "none"

\* undefined in place of a Reflection (reflection ids start at 1).
NoReflection == 0

\* Instances of ConverterNodeComponent and of ConverterTypeComponent.
NodeConverterIds == {"NA", "NB", "NC"}
TypeConverterIds == {"T1", "T2", "T3"}

\* ts.SyntaxKind values used by the model.
Kinds == {1, 2, 3}

\* ConverterNodeComponent.supports: the kinds a node converter declares.
Supports(c) ==
    CASE c = "NA" -> {1, 2}
      [] c = "NB" -> {2, 3}
      [] OTHER    -> {2}

Priorities == 0..MaxPriority

Nodes == 1..NumNodes

\* node.kind
KindOf(n) == ((n - 1) % 3) + 1

\* Which capability pairs a type converter implements.
Capabilities == {"node", "type", "both"}

VARIABLES
    children,            \* names registered with the component owner, in registration order
    nodeConverters,      \* this.nodeConverters: kind -> node converter
    typeNodeConverters,  \* this.typeNodeConverters
    typeTypeConverters,  \* this.typeTypeConverters
    priority,            \* ConverterTypeComponent.priority of every type converter
    caps,                \* the capability pairs every type converter implements
    typeCall,            \* the last convertType call: its inputs and what it did
    visitStack,          \* context.visitStack
    frames,              \* the active convertNode calls, outermost first
    ret,                 \* the last convertNode call that returned: its node and outcome
    reflections,         \* the ids in context.project.reflections
    nextId,              \* the id the next created reflection gets
    pc,                  \* where the converter is: "idle" or a step of convert()
    events,              \* the events triggered (and warnings logged) in this run, in order
    classified,          \* the getCompilerErrors call of this run: its inputs
    errors,              \* compile(): const errors = this.getCompilerErrors(...)
    includedSourceFiles, \* compile(): the source files that are not excluded
    fileIdx,             \* compile(): the position of the forEach over them
    pending,             \* resolve(): the ids the for-in loop has still to visit
    resolveStart,        \* resolve(): the ids in project.reflections when the loop started
    warning,             \* the names listed by the logged warning
    result,              \* what convert() returned
    sourceFiles,         \* program.getSourceFiles() of this run
    excluded             \* the source files an exclude pattern matches

regVars == <<children, nodeConverters, typeNodeConverters, typeTypeConverters>>
plugVars == <<priority, caps>>
nodeVars == <<visitStack, frames, ret, reflections, nextId>>
runVars == <<events, classified, errors, includedSourceFiles, fileIdx, pending, resolveStart,
            warning, result, sourceFiles, excluded>>

(* ----------------------------- sequences ------------------------------ *)

Range(s) == {s[i] : i \in 1..Len(s)}

Includes(s, x) == x \in Range(s)

\* Array.prototype.indexOf, 1-based; 0 when absent.
IndexOf(s, x) ==
    IF Includes(s, x) THEN CHOOSE i \in 1..Len(s) : s[i] = x /\ \A j \in 1..(i - 1) : s[j] # x
    ELSE 0

\* Array.prototype.splice(i, 1) at a 1-based index.
Splice(s, i) == [j \in 1..(Len(s) - 1) |-> IF j < i THEN s[j] ELSE s[j + 1]]

(* --------------------------- initialize() ----------------------------- *)

EmptyTable == [k \in {} |-> None]

(* -------------------------- addNodeConverter -------------------------- *)

addNodeConverterKeepFirst(table, c) ==
    [k \in (DOMAIN table) \cup Supports(c) |-> IF k \in DOMAIN table THEN table[k] ELSE c]

addNodeConverter(table, c) ==
    [k \in (DOMAIN table) \cup Supports(c) |-> IF k \in Supports(c) THEN c ELSE table[k]]

(* -------------------------- addTypeConverter -------------------------- *)

\* The comparator (a, b) => b.priority - a.priority: negative when a sorts first.
Compare(a, b) == priority[b] - priority[a]

RECURSIVE InsertSortedTiesFirst(_, _)
InsertSortedTiesFirst(s, x) ==
    IF s = <<>> THEN <<x>>
    ELSE IF Compare(Head(s), x) < 0 THEN <<Head(s)>> \o InsertSortedTiesFirst(Tail(s), x)
    ELSE <<x>> \o s

\* One insertion step of a stable sort: x goes behind every element that
\* does not compare greater than it.
RECURSIVE InsertSorted(_, _)
InsertSorted(s, x) ==
    IF s = <<>> THEN <<x>>
    ELSE IF Compare(Head(s), x) <= 0 THEN <<Head(s)>> \o InsertSorted(Tail(s), x)
    ELSE <<x>> \o s

SortForgotten(s) == s

\* Array.prototype.sort with the comparator above (stable).
RECURSIVE SortByPriority(_)
SortByPriority(s) ==
    IF s = <<>> THEN <<>>
    ELSE InsertSorted(SortByPriority(SubSeq(s, 1, Len(s) - 1)), s[Len(s)])

HasNodePair(c) == caps[c] \in {"node", "both"}
HasTypePair(c) == caps[c] \in {"type", "both"}

addTypeNode(chain, c) ==
    IF HasNodePair(c) THEN SortByPriority(Append(chain, c)) ELSE chain

addTypeType(chain, c) ==
    IF HasTypePair(c) THEN SortByPriority(Append(chain, c)) ELSE chain

(* ------------------------- removeNodeConverter ------------------------ *)

removeNodeConverterDeclared(table, c) ==
    [k \in {q \in DOMAIN table : q \notin Supports(c)} |-> table[k]]

removeNodeConverter(table, c) ==
    [k \in {q \in DOMAIN table : table[q] # c} |-> table[k]]

(* ------------------------- removeTypeConverter ------------------------ *)

removeTypeConverterPop(chain, c) ==
    IF IndexOf(chain, c) # 0 THEN SubSeq(chain, 1, Len(chain) - 1) ELSE chain

removeTypeConverter(chain, c) ==
    IF IndexOf(chain, c) # 0 THEN Splice(chain, IndexOf(chain, c)) ELSE chain

(* ---------------- addComponent / removeComponent ---------------------- *)

Registered(c) == Includes(children, c)

NoCall == [kind |-> "none"]

\* No call into the converter is in progress (execution is single-threaded).
Quiet == pc = "idle" /\ frames = <<>> /\ typeCall = NoCall /\ ret = NoCall

\* addComponent(name, componentClass) for a component that is not registered.
AddComponent(c) ==
    /\ Quiet
    /\ ~Registered(c)
    /\ children' = Append(children, c)
    /\ IF c \in NodeConverterIds
       THEN /\ nodeConverters' = addNodeConverter(nodeConverters, c)
            /\ UNCHANGED <<typeNodeConverters, typeTypeConverters>>
       ELSE /\ typeNodeConverters' = addTypeNode(typeNodeConverters, c)
            /\ typeTypeConverters' = addTypeType(typeTypeConverters, c)
            /\ UNCHANGED nodeConverters
    /\ UNCHANGED <<plugVars, typeCall, nodeVars, pc, runVars>>

\* removeComponent(name) for a registered component.
RemoveComponent(c) ==
    /\ Quiet
    /\ Registered(c)
    /\ children' = Splice(children, IndexOf(children, c))
    /\ IF c \in NodeConverterIds
       THEN /\ nodeConverters' = removeNodeConverter(nodeConverters, c)
            /\ UNCHANGED <<typeNodeConverters, typeTypeConverters>>
       ELSE /\ typeTypeConverters' = removeTypeConverter(typeTypeConverters, c)
            /\ typeNodeConverters' = removeTypeConverter(typeNodeConverters, c)
            /\ UNCHANGED nodeConverters
    /\ UNCHANGED <<plugVars, typeCall, nodeVars, pc, runVars>>

RemoveAllComponents ==
    /\ Quiet
    /\ children' = <<>>
    /\ nodeConverters' = EmptyTable
    /\ typeTypeConverters' = <<>>
    /\ typeNodeConverters' = <<>>
    /\ UNCHANGED <<plugVars, typeCall, nodeVars, pc, runVars>>

(* ----------------------------- convertType ---------------------------- *)

ScannedToTheEnd(chain, accept) == chain

\* The for-of scan of a chain: the converters whose predicate is called, in
\* order, up to and including the first one that accepts.
RECURSIVE Scanned(_, _)
Scanned(chain, accept) ==
    IF chain = <<>> THEN <<>>
    ELSE IF Head(chain) \in accept THEN <<Head(chain)>>
    ELSE <<Head(chain)>> \o Scanned(Tail(chain), accept)

\* The converter the scan returns from, or None when none accepts.
Winner(chain, accept) ==
    LET sc == Scanned(chain, accept)
    IN  IF sc # <<>> /\ sc[Len(sc)] \in accept THEN sc[Len(sc)] ELSE None

\* convertType(context, node?, type?). hasNode, hasType: which arguments are
\* supplied; resolves: context.getTypeAtLocation(node) yields a type;
\* acceptNode, acceptType: the converters whose supportsNode / supportsType
\* accepts the input; produces: the invoked conversion yields a type.
convertType(hasNode, hasType, resolves, acceptNode, acceptType, produces) ==
    LET type     == IF hasNode THEN (hasType \/ resolves) ELSE hasType
        nodeScan == IF hasNode THEN Scanned(typeNodeConverters, acceptNode) ELSE <<>>
        nodeWin  == IF hasNode THEN Winner(typeNodeConverters, acceptNode) ELSE None
        typeScan == IF nodeWin = None /\ type
                    THEN Scanned(typeTypeConverters, acceptType) ELSE <<>>
        typeWin  == IF nodeWin = None /\ type
                    THEN Winner(typeTypeConverters, acceptType) ELSE None
    IN  [ nodeScan |-> nodeScan,
          typeScan |-> typeScan,
          type     |-> type,
          via      |-> IF nodeWin # None THEN "convertNode"
                       ELSE IF typeWin # None THEN "convertType" ELSE None,
          conv     |-> IF nodeWin # None THEN nodeWin ELSE typeWin,
          result   |-> IF (nodeWin # None \/ typeWin # None) /\ produces
                       THEN "type" ELSE None ]

\* A call of convertType on the current chains.
ConvertTypeCall ==
    /\ Quiet
    /\ \E hasNode \in BOOLEAN, hasType \in BOOLEAN, resolves \in BOOLEAN, produces \in BOOLEAN :
       \E acceptNode \in SUBSET Range(typeNodeConverters),
          acceptType \in SUBSET Range(typeTypeConverters) :
          /\ hasNode \/ (~resolves /\ acceptNode = {})
          /\ typeCall' = [ kind |-> "convertType",
                           hasNode |-> hasNode, hasType |-> hasType, resolves |-> resolves,
                           acceptNode |-> acceptNode, acceptType |-> acceptType,
                           produces |-> produces,
                           out |-> convertType(hasNode, hasType, resolves,
                                               acceptNode, acceptType, produces) ]
    /\ UNCHANGED <<regVars, plugVars, nodeVars, pc, runVars>>

\* The caller takes the result of convertType.
ConvertTypeReturn ==
    /\ typeCall # NoCall
    /\ typeCall' = NoCall
    /\ UNCHANGED <<regVars, plugVars, nodeVars, pc, runVars>>

(* ----------------------------- convertTypes --------------------------- *)

\* The longest array convertTypes is called with.
MaxZip == 2

\* An array slot that holds nothing.
Undefined == [kind |-> "undefined"]

\* A node: whether the node-based converters accept it, and what the type
\* checker finds for it: nothing, or a type the type-based converters
\* accept or reject.
NodeItems ==
    {[kind |-> "node", accept |-> a, resolves |-> r] :
        a \in BOOLEAN, r \in {"no", "accepted", "rejected"}}

\* A type: whether the type-based converters accept it.
TypeItems == {[kind |-> "type", accept |-> a] : a \in BOOLEAN}

SeqsUpTo(S, n) == UNION {[1..k -> S] : k \in 0..n}

Max(a, b) == IF a >= b THEN a ELSE b

Min(a, b) == IF a <= b THEN a ELSE b

At(s, i) == IF i <= Len(s) THEN s[i] ELSE Undefined

ZipShortest(nodes, types) ==
    [i \in 1..Min(Len(nodes), Len(types)) |-> <<At(nodes, i), At(types, i)>>]

\* _.zip(nodes, types): as long as the longer array, the shorter one padded.
Zip(nodes, types) ==
    [i \in 1..Max(Len(nodes), Len(types)) |-> <<At(nodes, i), At(types, i)>>]

\* this.convertType(context, node, type) on one pair of the zip.
ConvertPair(node, type, produces) ==
    convertType(node # Undefined, type # Undefined,
                node # Undefined /\ node.resolves # "no",
                IF node # Undefined /\ node.accept THEN Range(typeNodeConverters) ELSE {},
                IF type # Undefined
                THEN (IF type.accept THEN Range(typeTypeConverters) ELSE {})
                ELSE IF node # Undefined /\ node.resolves = "accepted"
                     THEN Range(typeTypeConverters) ELSE {},
                produces)

\* if (converted) result.push(converted)
PushConverted(list, pos, out) ==
    IF out.result # None
    THEN Append(list, [kind |-> "converted", pos |-> pos, conv |-> out.conv])
    ELSE list

\* The forEach over the pairs, from pair i on.
RECURSIVE ForEachPair(_, _, _, _)
ForEachPair(pairs, produces, i, acc) ==
    IF i > Len(pairs) THEN acc
    ELSE LET out == ConvertPair(pairs[i][1], pairs[i][2], produces[i])
         IN  ForEachPair(pairs, produces, i + 1,
                [ calls  |-> Append(acc.calls, [pos |-> i, node |-> pairs[i][1],
                                                 type |-> pairs[i][2], out |-> out]),
                  result |-> PushConverted(acc.result, i, out) ])

\* convertTypes(context, nodes = [], types = [])
convertTypes(nodes, types, produces) ==
    ForEachPair(Zip(nodes, types), produces, 1, [calls |-> <<>>, result |-> <<>>])

\* A call of convertTypes on the current chains.
ConvertTypesCall ==
    /\ Quiet
    /\ \E nodes \in SeqsUpTo(NodeItems, MaxZip), types \in SeqsUpTo(TypeItems, MaxZip) :
       \E produces \in [1..Max(Len(nodes), Len(types)) -> BOOLEAN] :
          typeCall' = [ kind |-> "convertTypes", nodes |-> nodes, types |-> types,
                        produces |-> produces,
                        out |-> convertTypes(nodes, types, produces) ]
    /\ UNCHANGED <<regVars, plugVars, nodeVars, pc, runVars>>

(* ----------------------------- convertNode ---------------------------- *)

\* No convertNode call nests deeper than this; a guard that never binds
\* while the visit stack holds each node once.
MaxDepth == NumNodes + 1

IsVisitingTopOnly(stack, n) == stack # <<>> /\ stack[Len(stack)] = n

IsVisitingNever(stack, n) == FALSE

\* context.visitStack.includes(node)
IsVisiting(stack, n) == Includes(stack, n)

\* oldVisitStack.slice() with node pushed
PushVisit(stack, n) == Append(stack, n)

RestoreVisitPushedInPlace(old, current) == current

\* context.visitStack = oldVisitStack
RestoreVisit(old, current) == old

\* The converter `node.kind in this.nodeConverters` selects, or None.
Dispatch(table, n) == IF KindOf(n) \in DOMAIN table THEN table[KindOf(n)] ELSE None

ReturnNothing(convResult) == NoReflection

\* return result
ReturnResult(convResult) == convResult

\* Every active call on node n has seen one more converter invocation with n.
CountInvocation(fr, n) ==
    [i \in 1..Len(fr) |-> IF fr[i].node = n THEN [fr[i] EXCEPT !.inv = @ + 1] ELSE fr[i]]

Outcome(n, entry, conv, convResult, inv) ==
    [ kind |-> "convertNode", node |-> n, entry |-> entry,
      conv |-> conv, convResult |-> convResult,
      result |-> IF conv = None THEN NoReflection ELSE ReturnResult(convResult), inv |-> inv ]

\* convertNode(context, node) up to the point where it returns or where the
\* selected converter starts running; fr is the caller's call stack.
Enter(fr, n) ==
    IF IsVisiting(visitStack, n)
    THEN /\ frames' = fr
         /\ visitStack' = visitStack
         /\ ret' = Outcome(n, visitStack, None, NoReflection, 0)
    ELSE IF Dispatch(nodeConverters, n) = None
    THEN /\ frames' = fr
         /\ visitStack' = RestoreVisit(visitStack, PushVisit(visitStack, n))
         /\ ret' = Outcome(n, visitStack, None, NoReflection, 0)
    ELSE /\ frames' = Append(CountInvocation(fr, n),
                             [ node |-> n, old |-> visitStack,
                               conv |-> Dispatch(nodeConverters, n), last |-> 0, inv |-> 1 ])
         /\ visitStack' = PushVisit(visitStack, n)
         /\ ret' = NoCall

\* A call of convertNode from outside a run, on a fresh context.
TopConvertNode(n) ==
    /\ Quiet
    /\ visitStack = <<>>
    /\ Enter(frames, n)
    /\ reflections' = {} /\ nextId' = 1
    /\ UNCHANGED <<regVars, plugVars, typeCall, pc, runVars>>

\* The running converter calls back into convertNode for a node it refers
\* to; it walks the nodes it refers to in increasing order.
ConverterCalls(m) ==
    /\ frames # <<>>
    /\ Len(frames) < MaxDepth
    /\ m > frames[Len(frames)].last
    /\ Enter([frames EXCEPT ![Len(frames)].last = m], m)
    /\ UNCHANGED <<regVars, plugVars, typeCall, reflections, nextId, pc, runVars>>

\* The running converter returns, with a reflection it created or with
\* none, and convertNode restores the visit stack and returns that result.
ConverterReturns ==
    /\ frames # <<>>
    /\ LET top == frames[Len(frames)] IN
       \E created \in BOOLEAN :
          /\ created => Cardinality(reflections) < MaxReflections
          /\ reflections' = IF created THEN reflections \cup {nextId} ELSE reflections
          /\ nextId' = IF created THEN nextId + 1 ELSE nextId
          /\ frames' = SubSeq(frames, 1, Len(frames) - 1)
          /\ visitStack' = RestoreVisit(top.old, visitStack)
          /\ ret' = Outcome(top.node, top.old, top.conv,
                            IF created THEN nextId ELSE NoReflection, top.inv)
    /\ UNCHANGED <<regVars, plugVars, typeCall, pc, runVars>>

\* The outside caller takes the result of its convertNode call.
TakeResult ==
    /\ pc = "idle" /\ frames = <<>> /\ ret # NoCall
    /\ ret' = NoCall
    /\ UNCHANGED <<regVars, plugVars, typeCall, visitStack, frames, reflections, nextId, pc, runVars>>

(* -------------------------- getCompilerErrors ------------------------- *)

\* A diagnostic without a file.
NoFile == 0

Categories == {"options", "syntactic", "global", "semantic"}

\* program.getOptionsDiagnostics() and its three siblings: the diagnostics
\* of one category, in the order the program reports them.
OfCategory(diags, cat) == SelectSeq(diags, LAMBDA d : d.category = cat)

\* isRelevantError
isRelevantError(d, included) == d.file = NoFile \/ Includes(included, d.file)

Relevant(diags, included) == SelectSeq(diags, LAMBDA d : isRelevantError(d, included))

getCompilerErrorsGlobalFirst(ignoreCompilerErrors, diags, included) ==
    IF ignoreCompilerErrors THEN <<>>
    ELSE LET options   == Relevant(OfCategory(diags, "options"), included)
             syntactic == Relevant(OfCategory(diags, "syntactic"), included)
             global    == Relevant(OfCategory(diags, "global"), included)
             semantic  == Relevant(OfCategory(diags, "semantic"), included)
         IN  IF Len(options) # 0 THEN options
             ELSE IF Len(global) # 0 THEN global
             ELSE IF Len(syntactic) # 0 THEN syntactic
             ELSE IF Len(semantic) # 0 THEN semantic
             ELSE <<>>

getCompilerErrors(ignoreCompilerErrors, diags, included) ==
    IF ignoreCompilerErrors THEN <<>>
    ELSE LET options   == Relevant(OfCategory(diags, "options"), included)
             syntactic == Relevant(OfCategory(diags, "syntactic"), included)
             global    == Relevant(OfCategory(diags, "global"), included)
             semantic  == Relevant(OfCategory(diags, "semantic"), included)
         IN  IF Len(options) # 0 THEN options
             ELSE IF Len(syntactic) # 0 THEN syntactic
             ELSE IF Len(global) # 0 THEN global
             ELSE IF Len(semantic) # 0 THEN semantic
             ELSE <<>>

(* ------------------------------ convert ------------------------------- *)

SourceFileKind == KindOf(1)

\* The nodes that are source files.
SourceFileNodes == {n \in Nodes : KindOf(n) = SourceFileKind}

DistinctSeqs(S) ==
    {q \in UNION {[1..k -> S] : k \in 0..Cardinality(S)} :
        \A i, j \in 1..Len(q) : i # j => q[i] # q[j]}

\* The diagnostics a program with the given source files can report.
DiagSeqs(files) ==
    UNION {[1..k -> [category : Categories, file : {NoFile} \cup Range(files)]] :
              k \in 0..MaxDiag}

\* project.getDanglingReferences()
DanglingLists == {<<>>, <<"a">>, <<"a", "b">>}

Event(e, arg) == [e |-> e, arg |-> arg]

\* this.trigger(event, context, ...)
Trigger(log, e, arg) == Append(log, Event(e, arg))

\* convert() up to and including the begin event.
ConvertBegin ==
    /\ Quiet
    /\ pc' = "begun"
    /\ visitStack' = <<>> /\ reflections' = {} /\ nextId' = 1
    /\ events' = Trigger(<<>>, "begin", 0)
    /\ UNCHANGED <<regVars, plugVars, typeCall, frames, ret, classified, errors,
                   includedSourceFiles, fileIdx, pending, resolveStart, warning, result,
                   sourceFiles, excluded>>

CompileAlwaysReturnsEarly(errs) == TRUE

CompileNeverReturnsEarly(errs) == FALSE

\* if (errors.length) return errors
CompileReturnsEarly(errs) == Len(errs) # 0

\* compile() up to the return of the errors or to the forEach.
Compile ==
    /\ pc = "begun"
    /\ \E files \in DistinctSeqs(SourceFileNodes), ignore \in BOOLEAN :
       \E excl \in SUBSET Range(files), diags \in DiagSeqs(files) :
          LET included == SelectSeq(files, LAMBDA f : f \notin excl)
              errs     == getCompilerErrors(ignore, diags, included)
          IN  /\ sourceFiles' = files
              /\ excluded' = excl
              /\ classified' = [kind |-> "getCompilerErrors", ignore |-> ignore, diags |-> diags]
              /\ includedSourceFiles' = included
              /\ errors' = errs
              /\ fileIdx' = 1
              /\ pc' = IF CompileReturnsEarly(errs) THEN "compiled" ELSE "compiling"
    /\ UNCHANGED <<regVars, plugVars, typeCall, nodeVars, events, pending, resolveStart,
                   warning, result>>

\* The forEach of compile() calls convertNode on the next source file.
ConvertFile ==
    /\ pc = "compiling" /\ frames = <<>> /\ ret = NoCall
    /\ fileIdx <= Len(includedSourceFiles)
    /\ Enter(frames, includedSourceFiles[fileIdx])
    /\ events' = Append(events, Event("file", includedSourceFiles[fileIdx]))
    /\ classified' = NoCall
    /\ UNCHANGED <<regVars, plugVars, typeCall, reflections, nextId, pc, errors,
                   includedSourceFiles, fileIdx, pending, resolveStart, warning, result,
                   sourceFiles, excluded>>

\* That convertNode call has returned; the forEach moves on.
FileDone ==
    /\ pc = "compiling" /\ frames = <<>> /\ ret # NoCall
    /\ ret' = NoCall
    /\ fileIdx' = fileIdx + 1
    /\ events' = Append(events, Event("fileDone", ret.node))
    /\ UNCHANGED <<regVars, plugVars, typeCall, visitStack, frames, reflections, nextId, pc,
                   classified, errors, includedSourceFiles, pending, resolveStart,
                   warning, result,
                   sourceFiles, excluded>>

\* The forEach is over: compile() returns [].
CompileDone ==
    /\ pc = "compiling" /\ frames = <<>> /\ ret = NoCall
    /\ fileIdx > Len(includedSourceFiles)
    /\ pc' = "compiled"
    /\ classified' = NoCall
    /\ UNCHANGED <<regVars, plugVars, typeCall, nodeVars, events, errors,
                   includedSourceFiles, fileIdx, pending, resolveStart, warning, result,
                   sourceFiles, excluded>>

\* The keys of project.reflections in for-in order (ascending ids).
RECURSIVE Ascending(_)
Ascending(ids) ==
    IF ids = {} THEN <<>>
    ELSE LET least == CHOOSE x \in ids : \A y \in ids : x <= y
         IN  <<least>> \o Ascending(ids \ {least})

\* resolve() up to the start of the for-in loop.
ResolveBegin ==
    /\ pc = "compiled"
    /\ pc' = "resolving"
    /\ events' = Trigger(events, "resolveBegin", 0)
    /\ pending' = Ascending(reflections)
    /\ resolveStart' = reflections
    /\ classified' = NoCall
    /\ UNCHANGED <<regVars, plugVars, typeCall, nodeVars, errors,
                   includedSourceFiles, fileIdx, warning, result, sourceFiles, excluded>>

\* One round of the for-in loop: a key that was deleted before its turn is
\* not visited; for any other the resolve event fires, and its handlers may
\* delete a reflection or create one. Whether the loop comes to visit a key
\* added while it runs is left open by the language.
ResolveStep ==
    /\ pc = "resolving" /\ pending # <<>>
    /\ LET id == Head(pending) IN
       IF id \notin reflections
       THEN /\ pending' = Tail(pending)
            /\ UNCHANGED <<events, reflections, nextId>>
       ELSE /\ events' = Trigger(events, "resolve", id)
            /\ \/ /\ pending' = Tail(pending)
                  /\ UNCHANGED <<reflections, nextId>>
               \/ /\ \E gone \in reflections : reflections' = reflections \ {gone}
                  /\ pending' = Tail(pending)
                  /\ UNCHANGED nextId
               \/ /\ Cardinality(reflections) < MaxReflections
                  /\ reflections' = reflections \cup {nextId}
                  /\ nextId' = nextId + 1
                  /\ \E visited \in BOOLEAN :
                        pending' = IF visited THEN Append(Tail(pending), nextId)
                                   ELSE Tail(pending)
    /\ UNCHANGED <<regVars, plugVars, typeCall, visitStack, frames, ret, pc, classified, errors,
                   includedSourceFiles, fileIdx, resolveStart, warning, result,
                   sourceFiles, excluded>>

\* The for-in loop is over: resolve() triggers the end event and returns.
ResolveEnd ==
    /\ pc = "resolving" /\ pending = <<>>
    /\ pc' = "resolved"
    /\ events' = Trigger(events, "resolveEnd", 0)
    /\ UNCHANGED <<regVars, plugVars, typeCall, nodeVars, classified, errors,
                   includedSourceFiles, fileIdx, pending, resolveStart, warning, result,
                   sourceFiles, excluded>>

ClosingWarnsAlways(log, dangling) ==
    Trigger(Append(log, Event("warn", Len(dangling))), "end", 0)

ClosingWithoutEnd(log, dangling) ==
    IF Len(dangling) # 0 THEN Append(log, Event("warn", Len(dangling))) ELSE log

\* The rest of convert(): the warning about dangling references, if there
\* are any, and the end event.
Closing(log, dangling) ==
    Trigger(IF Len(dangling) # 0 THEN Append(log, Event("warn", Len(dangling))) ELSE log,
            "end", 0)

ConvertResultNoErrors(errs, project) ==
    [kind |-> "convert", errors |-> <<>>, project |-> project]

\* return { errors: errors, project: project }
ConvertResult(errs, project) ==
    [kind |-> "convert", errors |-> errs, project |-> project]

ConvertEnd ==
    /\ pc = "resolved"
    /\ pc' = "done"
    /\ \E dangling \in DanglingLists :
          /\ events' = Closing(events, dangling)
          /\ warning' = dangling
    /\ result' = ConvertResult(errors, reflections)
    /\ UNCHANGED <<regVars, plugVars, typeCall, nodeVars, classified, errors,
                   includedSourceFiles, fileIdx, pending, resolveStart,
                   sourceFiles, excluded>>

\* The caller takes the result; the context of the run is dropped.
ConvertReturn ==
    /\ pc = "done"
    /\ pc' = "idle"
    /\ events' = <<>> /\ errors' = <<>> /\ includedSourceFiles' = <<>> /\ fileIdx' = 0
    /\ warning' = <<>> /\ result' = NoCall /\ sourceFiles' = <<>> /\ excluded' = {}
    /\ reflections' = {} /\ nextId' = 1 /\ resolveStart' = {}
    /\ UNCHANGED <<regVars, plugVars, typeCall, visitStack, frames, ret, classified, pending>>

(* ------------------------- failures in a run -------------------------- *)

CaughtLocally(at) == at

\* Where a failure thrown at step `at` of convert() leaves the run: nothing
\* in convert(), compile(), resolve() or convertNode() catches it.
Propagate(at) == "failed"

\* A node converter, or a type converter it called, throws while it runs:
\* every convertNode call of the stack is left without restoring the visit
\* stack, and so are compile() and convert().
ConverterThrows ==
    /\ pc = "compiling" /\ frames # <<>>
    /\ pc' = Propagate(pc)
    /\ frames' = <<>> /\ ret' = NoCall
    /\ events' = Append(events, Event("throw", 0))
    /\ UNCHANGED <<regVars, plugVars, typeCall, visitStack, reflections, nextId, classified,
                   errors, includedSourceFiles, fileIdx, pending, resolveStart, warning, result,
                   sourceFiles, excluded>>

\* A handler of the event that was triggered last throws, or a handler of
\* the end event does.
HandlerThrows ==
    /\ \/ /\ pc \in {"begun", "resolving", "resolved"}
          /\ events[Len(events)].e \in {"begin", "resolveBegin", "resolve", "resolveEnd"}
          /\ events' = Append(events, Event("throw", 0))
       \/ /\ pc = "resolved"
          /\ events[Len(events)].e = "resolveEnd"
          /\ \E dangling \in DanglingLists :
                events' = Append(Closing(events, dangling), Event("throw", 0))
    /\ pc' = Propagate(pc)
    /\ UNCHANGED <<regVars, plugVars, typeCall, nodeVars, classified, errors,
                   includedSourceFiles, fileIdx, pending, resolveStart, warning, result,
                   sourceFiles, excluded>>

\* The failure reaches the caller of convert(); the context of the run is dropped.
ConvertThrows ==
    /\ pc = "failed"
    /\ pc' = "idle"
    /\ events' = <<>> /\ errors' = <<>> /\ includedSourceFiles' = <<>> /\ fileIdx' = 0
    /\ warning' = <<>> /\ sourceFiles' = <<>> /\ excluded' = {}
    /\ reflections' = {} /\ nextId' = 1 /\ resolveStart' = {}
    /\ visitStack' = <<>> /\ pending' = <<>> /\ classified' = NoCall
    /\ UNCHANGED <<regVars, plugVars, typeCall, frames, ret, result>>

(* ------------------- the registries and convertType ------------------- *)

InitCommon ==
    /\ children = <<>>
    /\ nodeConverters = EmptyTable
    /\ typeTypeConverters = <<>>
    /\ typeNodeConverters = <<>>
    /\ typeCall = NoCall
    /\ visitStack = <<>>
    /\ frames = <<>>
    /\ ret = NoCall
    /\ reflections = {}
    /\ nextId = 1
    /\ pc = "idle"
    /\ events = <<>>
    /\ classified = NoCall
    /\ errors = <<>>
    /\ includedSourceFiles = <<>>
    /\ fileIdx = 0
    /\ pending = <<>>
    /\ resolveStart = {}
    /\ warning = <<>>
    /\ result = NoCall
    /\ sourceFiles = <<>>
    /\ excluded = {}

InitReg ==
    /\ InitCommon
    /\ priority \in [TypeConverterIds -> Priorities]
    /\ caps \in [TypeConverterIds -> Capabilities]

NextReg ==
    \/ \E c \in TypeConverterIds : AddComponent(c)
    \/ \E c \in TypeConverterIds : RemoveComponent(c)
    \/ RemoveAllComponents
    \/ ConvertTypeCall
    \/ ConvertTypeReturn

vars == <<children, nodeConverters, typeNodeConverters, typeTypeConverters, priority, caps,
          typeCall, visitStack, frames, ret, reflections, nextId, pc,
          events, classified, errors, includedSourceFiles, fileIdx, pending, resolveStart,
          warning, result, sourceFiles, excluded>>

SpecReg == InitReg /\ [][NextReg]_vars

(* ----------------------------- convertTypes --------------------------- *)

\* One converter of each make: node-based only, type-based only, both.
MixedPlugins ==
    /\ priority = [c \in TypeConverterIds |-> 0]
    /\ caps = [c \in TypeConverterIds |->
                  IF c = "T1" THEN "node" ELSE IF c = "T2" THEN "type" ELSE "both"]

InitTypes == InitCommon /\ MixedPlugins

NextTypes ==
    \/ \E c \in TypeConverterIds : AddComponent(c)
    \/ \E c \in TypeConverterIds : RemoveComponent(c)
    \/ ConvertTypesCall
    \/ ConvertTypeReturn

SpecTypes == InitTypes /\ [][NextTypes]_vars

(* --------------- the dispatch table and convertNode ------------------- *)

\* Fixed attributes for the type converters where they play no part.
DefaultPlugins ==
    /\ priority = [c \in TypeConverterIds |-> 0]
    /\ caps = [c \in TypeConverterIds |-> "both"]

InitNode == InitCommon /\ DefaultPlugins

NextNode ==
    \/ \E c \in NodeConverterIds : AddComponent(c)
    \/ \E c \in NodeConverterIds : RemoveComponent(c)
    \/ RemoveAllComponents
    \/ \E n \in Nodes : TopConvertNode(n)
    \/ \E m \in Nodes : ConverterCalls(m)
    \/ ConverterReturns
    \/ TakeResult

SpecNode == InitNode /\ [][NextNode]_vars

(* ------------------------- the convert pipeline ----------------------- *)

RunNodeConverters == {"NA", "NB"}

InitRun == InitCommon /\ DefaultPlugins

NextRun ==
    \/ \E c \in RunNodeConverters : AddComponent(c)
    \/ \E c \in RunNodeConverters : RemoveComponent(c)
    \/ ConvertBegin
    \/ Compile
    \/ ConvertFile
    \/ \E m \in Nodes : ConverterCalls(m)
    \/ ConverterReturns
    \/ FileDone
    \/ CompileDone
    \/ ResolveBegin
    \/ ResolveStep
    \/ ResolveEnd
    \/ ConvertEnd
    \/ ConvertReturn

Spec == InitRun /\ [][NextRun]_vars

\* Runs in which converters and event handlers may throw.
NextThrow ==
    \/ NextRun
    \/ ConverterThrows
    \/ HandlerThrows
    \/ ConvertThrows

SpecThrow == InitRun /\ [][NextThrow]_vars

\* Execution is synchronous: a converter that is running takes its next step.
ConverterStep == (\E m \in Nodes : ConverterCalls(m)) \/ ConverterReturns

SpecNodeFair == SpecNode /\ WF_vars(ConverterStep)

(* ============================ properties ============================== *)

(* ---- the diagnostic classifier and the pipeline (under Spec) ---- *)

Classified == classified # NoCall

CategoryOrder == <<"options", "syntactic", "global", "semantic">>

\* The diagnostics of a category that have no file or whose file is an
\* included source file, in the order they were reported.
RelevantOf(cat) ==
    SelectSeq(classified.diags,
              LAMBDA d : /\ d.category = cat
                         /\ d.file = NoFile \/ d.file \in (Range(sourceFiles) \ excluded))

HasEvent(e) == \E i \in 1..Len(events) : events[i].e = e

CountEvent(e) == Cardinality({i \in 1..Len(events) : events[i].e = e})

\* C1: with ignoreCompilerErrors set the classifier returns the empty list;
\* otherwise it returns the relevant diagnostics of the first category, in
\* the order options, syntactic, global, semantic, that has any, and the
\* empty list when none has.
C1_FirstNonEmptyCategory ==
    Classified =>
        IF classified.ignore THEN errors = <<>>
        ELSE \/ \E i \in 1..4 :
                  /\ RelevantOf(CategoryOrder[i]) # <<>>
                  /\ \A j \in 1..(i - 1) : RelevantOf(CategoryOrder[j]) = <<>>
                  /\ errors = RelevantOf(CategoryOrder[i])
                  /\ \A n \in 1..Len(errors) : errors[n].category = CategoryOrder[i]
             \/ /\ \A i \in 1..4 : RelevantOf(CategoryOrder[i]) = <<>>
                /\ errors = <<>>

C1_Witness ==
    /\ Classified /\ ~classified.ignore
    /\ Len(classified.diags) = 2
    /\ classified.diags[1].category = "options"
    /\ RelevantOf("options") = <<>>
    /\ errors # <<>>
    /\ errors[1].category = "global"

\* C2: without suppression, when the options category has a relevant
\* diagnostic the errors of the run are options diagnostics only, no source
\* file is converted in the run, and the run returns those errors.
C2_OptionsBlock ==
    /\ (Classified /\ ~classified.ignore /\ RelevantOf("options") # <<>>) =>
          /\ errors = RelevantOf("options")
          /\ \A n \in 1..Len(errors) : errors[n].category = "options"
    /\ (errors # <<>> /\ errors[1].category = "options") =>
          /\ \A n \in 1..Len(errors) : errors[n].category = "options"
          /\ ~HasEvent("file")
          /\ frames = <<>> /\ ret = NoCall
          /\ pc = "done" => result.errors = errors

C2_Witness ==
    /\ pc = "done"
    /\ errors # <<>> /\ errors[1].category = "options"
    /\ Len(includedSourceFiles) = 2

PhaseOf(e) ==
    CASE e = "begin" -> 1
      [] e \in {"file", "fileDone"} -> 2
      [] e = "resolveBegin" -> 3
      [] e = "resolve" -> 4
      [] e = "resolveEnd" -> 5
      [] e = "warn" -> 6
      [] OTHER -> 7

C10_EventOrder ==
    /\ \A i, j \in 1..Len(events) : i < j => PhaseOf(events[i].e) <= PhaseOf(events[j].e)
    /\ \A e \in {"begin", "resolveBegin", "resolveEnd", "end"} : CountEvent(e) <= 1
    /\ pc # "idle" => events # <<>> /\ events[1].e = "begin"
    /\ \A i \in 1..Len(events) :
          events[i].e = "file" =>
              \/ i = Len(events) /\ pc = "compiling"
              \/ i < Len(events) /\ events[i + 1] = Event("fileDone", events[i].arg)
    /\ pc \in {"resolving", "resolved", "done"} => CountEvent("resolveBegin") = 1
    /\ pc \in {"resolved", "done"} => CountEvent("resolveEnd") = 1
    /\ pc = "done" => CountEvent("end") = 1 /\ events[Len(events)].e = "end"

C10_PassStep ==
    pc' # pc =>
        <<pc, pc'>> \in { <<"idle", "begun">>, <<"begun", "compiling">>, <<"begun", "compiled">>,
                          <<"compiling", "compiled">>, <<"compiled", "resolving">>,
                          <<"resolving", "resolved">>, <<"resolved", "done">>,
                          <<"done", "idle">> }

C10_OnePass == []C10_EventOrder /\ [][C10_PassStep]_vars

C10_Witness ==
    /\ pc = "done"
    /\ CountEvent("fileDone") = 2
    /\ CountEvent("resolve") = 2
    /\ HasEvent("warn")

(* ---- the dispatch table, convertNode and the type chains ---- *)

NoDuplicates(s) == \A i, j \in 1..Len(s) : i # j => s[i] # s[j]

Returned == ret # NoCall

\* The last convertNode call found its node on the visit stack.
ReEntered == Returned /\ Includes(ret.entry, ret.node)

C5_Registration ==
    \A b \in NodeConverterIds :
        (~Registered(b) /\ children' = Append(children, b)) =>
            \A k \in Supports(b) : k \in DOMAIN nodeConverters' /\ nodeConverters'[k] = b

C5_Dispatch ==
    \A i \in 1..Len(frames) : frames[i].conv = Dispatch(nodeConverters, frames[i].node)

C5_LastWriteWins == [][C5_Registration]_vars /\ []C5_Dispatch

C5_Witness ==
    /\ children = <<"NA", "NB">>
    /\ frames # <<>>
    /\ KindOf(frames[1].node) \in Supports("NA") \cap Supports("NB")
    /\ frames[1].conv = "NB"

\* C8: the visit stack never holds a node twice, and a convertNode call on
\* a node that is on the visit stack returns no reflection, invokes no
\* converter and leaves the visit stack as it was.
C8_CycleGuard ==
    /\ NoDuplicates(visitStack)
    /\ ReEntered =>
          /\ ret.result = NoReflection
          /\ ret.conv = None
          /\ ret.inv = 0
          /\ visitStack = ret.entry

C8_Witness ==
    /\ ReEntered
    /\ Len(visitStack) >= 2
    /\ ret.node = visitStack[1]

\* C9: the nesting depth of convertNode never exceeds the number of nodes,
\* no node is under conversion twice at the same time, its converter is
\* invoked once while it is, and every started conversion terminates.
C9_Depth ==
    /\ Len(frames) <= NumNodes
    /\ \A i, j \in 1..Len(frames) : i # j => frames[i].node # frames[j].node
    /\ \A i \in 1..Len(frames) : frames[i].inv = 1

C9_Terminates == []C9_Depth /\ ((frames # <<>>) ~> (frames = <<>>))

C9_Witness ==
    /\ Len(frames) = NumNodes
    /\ frames[Len(frames)].last = frames[1].node

TypeCalled == typeCall # NoCall

\* The converter's support predicate accepts the input of the last call.
AcceptsNode(c) == typeCall.hasNode /\ c \in typeCall.acceptNode
AcceptsType(c) == typeCall.out.type /\ c \in typeCall.acceptType

\* The type-based chain is scanned: no node is supplied, or no node-based
\* converter accepts it; and a type is at hand.
TypeChainScanned ==
    /\ typeCall.out.type
    /\ ~typeCall.hasNode \/ typeCall.acceptNode = {}

\* C6 as stated: of two registered type converters with priorities p1 > p2
\* whose support predicates accept the same input, a conversion of priority
\* at least p1 is invoked and the conversion of the p2 converter is not.
C6_AnyTwoConverters ==
    TypeCalled =>
        \A c1, c2 \in Range(children) :
            ( /\ priority[c1] > priority[c2]
              /\ AcceptsNode(c1) \/ AcceptsType(c1)
              /\ AcceptsNode(c2) \/ AcceptsType(c2) ) =>
                /\ typeCall.out.conv # None
                /\ typeCall.out.conv # c2
                /\ priority[typeCall.out.conv] >= priority[c1]

\* C6 as amended: the claim holds of two converters of the same chain. With
\* a node supplied and two node-based converters accepting it, and with the
\* type-based chain scanned and two type-based converters accepting the
\* type, the first accepting converter of the chain is invoked: one of
\* priority at least p1, never the p2 converter, whose predicate is not
\* even called.
C6_SameChain ==
    TypeCalled =>
        \A c1, c2 \in Range(children) :
            priority[c1] > priority[c2] =>
                /\ (AcceptsNode(c1) /\ AcceptsNode(c2)) =>
                      /\ typeCall.out.via = "convertNode"
                      /\ typeCall.out.conv # c2
                      /\ priority[typeCall.out.conv] >= priority[c1]
                      /\ ~Includes(typeCall.out.nodeScan, c2)
                      /\ typeCall.out.typeScan = <<>>
                /\ (TypeChainScanned /\ AcceptsType(c1) /\ AcceptsType(c2)) =>
                      /\ typeCall.out.via = "convertType"
                      /\ typeCall.out.conv # c2
                      /\ priority[typeCall.out.conv] >= priority[c1]
                      /\ ~Includes(typeCall.out.typeScan, c2)

C6_Witness ==
    /\ TypeCalled
    /\ \E c1, c2 \in Range(children) :
          /\ priority[c1] > priority[c2]
          /\ IndexOf(children, c2) < IndexOf(children, c1)
          /\ AcceptsNode(c1) /\ AcceptsNode(c2)
          /\ typeCall.out.conv = c1

\* C7: both type chains are sorted by non-increasing priority, converters
\* of equal priority in the order of their registration.
ChainSorted(chain) ==
    \A i, j \in 1..Len(chain) :
        i < j =>
            /\ priority[chain[i]] >= priority[chain[j]]
            /\ priority[chain[i]] = priority[chain[j]] =>
                  IndexOf(children, chain[i]) < IndexOf(children, chain[j])

C7_ChainsSorted == ChainSorted(typeNodeConverters) /\ ChainSorted(typeTypeConverters)

C7_Witness ==
    /\ Len(typeNodeConverters) = 3
    /\ priority[typeNodeConverters[1]] > priority[typeNodeConverters[2]]
    /\ priority[typeNodeConverters[2]] = priority[typeNodeConverters[3]]
    /\ typeNodeConverters[1] = children[3]
    /\ Len(typeTypeConverters) = 2

(* ---- the resolve pass (under Spec) ---- *)

\* The ids the resolve event fired for in this run, in firing order.
ResolvedIds ==
    LET fired == SelectSeq(events, LAMBDA ev : ev.e = "resolve")
    IN  [i \in 1..Len(fired) |-> fired[i].arg]

\* C11: when the resolve pass is over, the resolve event has fired exactly
\* once for every reflection id that was in the mapping when the pass began,
\* in ascending id order, and for no other id, whatever the handlers added
\* or deleted meanwhile.
C11_SnapshotResolved ==
    pc \in {"resolved", "done"} => ResolvedIds = Ascending(resolveStart)

(* ---- the dangling-reference warning (under Spec) ---- *)

\* C12: a run logs one warning, listing every dangling name, exactly when
\* the dangling list after the resolve pass is non-empty; the warning comes
\* right after resolve-end and right before the end event; and the errors
\* the run returns are the list compile produced, with or without dangling
\* references.
C12_DanglingWarning ==
    /\ HasEvent("warn") => pc = "done"
    /\ pc = "done" =>
          LET n == Len(events) IN
          /\ events[n] = Event("end", 0)
          /\ CountEvent("warn") = (IF warning # <<>> THEN 1 ELSE 0)
          /\ warning # <<>> =>
                /\ events[n - 1] = Event("warn", Len(warning))
                /\ events[n - 2] = Event("resolveEnd", 0)
          /\ warning = <<>> => events[n - 1] = Event("resolveEnd", 0)
          /\ result.errors = errors

C12_Witness ==
    /\ pc = "done"
    /\ Len(warning) = 2
    /\ HasEvent("warn")
    /\ errors # <<>>
    /\ result.errors = errors

(* ---- convertTypes (under SpecTypes) ---- *)

TypesCalled == typeCall.kind = "convertTypes"

\* C13: convertTypes calls convertType once for every position from the
\* first to the last of the longer array, in order, with the node and the
\* type at that position, either one absent past the end of its array; the
\* result holds the types produced, in increasing position order, without
\* the positions that produced none, so it is no longer than the longer
\* array; and a position that produces nothing raises no error.
C13_ConvertTypes ==
    TypesCalled =>
        LET nodes    == typeCall.nodes
            types    == typeCall.types
            calls    == typeCall.out.calls
            res      == typeCall.out.result
            n        == IF Len(nodes) >= Len(types) THEN Len(nodes) ELSE Len(types)
            produced == {i \in 1..n : calls[i].out.result # None}
        IN  /\ Len(calls) = n
            /\ \A i \in 1..n :
                  /\ calls[i].pos = i
                  /\ calls[i].node = (IF i <= Len(nodes) THEN nodes[i] ELSE Undefined)
                  /\ calls[i].type = (IF i <= Len(types) THEN types[i] ELSE Undefined)
                  /\ calls[i].out.type =
                        (i <= Len(types) \/ (i <= Len(nodes) /\ nodes[i].resolves # "no"))
            /\ Len(res) = Cardinality(produced)
            /\ Len(res) <= n
            /\ \A k \in 1..Len(res) : res[k].pos \in produced
            /\ \A k \in 1..(Len(res) - 1) : res[k].pos < res[k + 1].pos
            /\ pc = "idle"

\* Arrays of different lengths, the first position producing nothing.
C13_Witness ==
    /\ TypesCalled
    /\ Len(typeCall.nodes) = 1 /\ Len(typeCall.types) = 2
    /\ typeCall.out.calls[1].out.result = None
    /\ Len(typeCall.out.result) = 1
    /\ typeCall.out.result[1].pos = 2
    /\ typeCall.out.calls[2].node = Undefined

(* ---- removal from the dispatch table (under SpecNode) ---- *)

C14_Removal ==
    \A c \in NodeConverterIds :
        (Registered(c) /\ children' = Splice(children, IndexOf(children, c))) =>
            /\ DOMAIN nodeConverters' = {k \in DOMAIN nodeConverters : nodeConverters[k] # c}
            /\ \A k \in DOMAIN nodeConverters' :
                  nodeConverters'[k] = nodeConverters[k] /\ nodeConverters'[k] # c

\* C14: removing a node converter takes out of the dispatch table every
\* kind that maps to that instance and nothing else: afterwards no kind maps
\* to it, and every kind that mapped to another instance, also a kind the
\* removed converter declares but a later registration took over, maps as
\* before.
C14_RemovesOwnKinds == [][C14_Removal]_vars

\* NB took kind 2 over from NA and was removed: kind 1 still maps to NA.
C14_Witness ==
    /\ children = <<"NA">>
    /\ DOMAIN nodeConverters = {1}
    /\ nodeConverters[1] = "NA"

(* ---- removal from the type chains (under SpecReg) ---- *)

Without(chain, c) == SelectSeq(chain, LAMBDA x : x # c)

C15_Removal ==
    \A c \in TypeConverterIds :
        (Registered(c) /\ children' = Splice(children, IndexOf(children, c))) =>
            /\ typeNodeConverters' = Without(typeNodeConverters, c)
            /\ typeTypeConverters' = Without(typeTypeConverters, c)

C15_NotConsulted ==
    \A c \in TypeConverterIds :
        ~Registered(c) =>
            /\ ~Includes(typeNodeConverters, c) /\ ~Includes(typeTypeConverters, c)
            /\ TypeCalled =>
                  /\ ~Includes(typeCall.out.nodeScan, c)
                  /\ ~Includes(typeCall.out.typeScan, c)
                  /\ typeCall.out.conv # c

\* C15: removing a type converter takes it out of both chains and leaves
\* every other converter in its chains in the same relative order; no
\* convertType call made while it is not registered consults it.
C15_RemovedFromChains == [][C15_Removal]_vars /\ []C15_NotConsulted

\* A call that scans both chains while T2, a converter of both capability
\* pairs that would outrank the others, is not registered.
C15_Witness ==
    /\ ~Registered("T2") /\ caps["T2"] = "both" /\ priority["T2"] = MaxPriority
    /\ typeNodeConverters = <<"T1", "T3">>
    /\ typeTypeConverters = <<"T1", "T3">>
    /\ priority["T1"] = 0 /\ priority["T3"] = 0
    /\ TypeCalled
    /\ typeCall.out.nodeScan = <<"T1", "T3">>
    /\ typeCall.out.typeScan = <<"T1", "T3">>

(* ---- the two chains of convertType (under SpecReg) ---- *)

\* The position of the first converter of the chain that accepts, 0 if none.
FirstAccepting(chain, accept) ==
    IF \E i \in 1..Len(chain) : chain[i] \in accept
    THEN CHOOSE i \in 1..Len(chain) :
            chain[i] \in accept /\ \A j \in 1..(i - 1) : chain[j] \notin accept
    ELSE 0

\* The predicates a full scan of the chain calls: up to the first that accepts.
ScanOf(chain, accept) ==
    IF FirstAccepting(chain, accept) = 0 THEN chain
    ELSE SubSeq(chain, 1, FirstAccepting(chain, accept))

NodeAccepted == typeCall.hasNode /\ FirstAccepting(typeNodeConverters, typeCall.acceptNode) # 0

\* C16 as stated: the type-based chain is scanned if and only if no node is
\* supplied or no node-based converter accepts the node.
C16_ScannedWithoutType ==
    TypeCalled =>
        typeCall.out.typeScan =
            (IF ~typeCall.hasNode \/ ~NodeAccepted
             THEN ScanOf(typeTypeConverters, typeCall.acceptType) ELSE <<>>)

\* C16 as amended: the type-based chain is scanned if and only if a type is
\* at hand (supplied, or resolved for the supplied node) and no node is
\* supplied or no node-based converter accepts the node. The first
\* node-based converter that accepts is invoked and its result returned,
\* absent or not, without a look at the type-based chain; otherwise the
\* first type-based converter that accepts the type is; and when none
\* accepts, or there is no type to scan with, the result is absent.
C16_ScannedWithType ==
    TypeCalled =>
        LET out      == typeCall.out
            type     == typeCall.hasType \/ (typeCall.hasNode /\ typeCall.resolves)
            nodeAt   == FirstAccepting(typeNodeConverters, typeCall.acceptNode)
            typeAt   == FirstAccepting(typeTypeConverters, typeCall.acceptType)
            produced == IF typeCall.produces THEN "type" ELSE None
        IN  /\ out.type = type
            /\ out.nodeScan = (IF typeCall.hasNode
                               THEN ScanOf(typeNodeConverters, typeCall.acceptNode) ELSE <<>>)
            /\ out.typeScan = (IF type /\ ~NodeAccepted
                               THEN ScanOf(typeTypeConverters, typeCall.acceptType) ELSE <<>>)
            /\ NodeAccepted =>
                  /\ out.via = "convertNode" /\ out.conv = typeNodeConverters[nodeAt]
                  /\ out.result = produced
            /\ (~NodeAccepted /\ type /\ typeAt # 0) =>
                  /\ out.via = "convertType" /\ out.conv = typeTypeConverters[typeAt]
                  /\ out.result = produced
            /\ (~NodeAccepted /\ (~type \/ typeAt = 0)) =>
                  /\ out.via = None /\ out.conv = None /\ out.result = None
            /\ pc = "idle"

\* A node no node-based converter accepts and no type for it: the
\* type-based chain is not scanned although its converters would accept.
C16_Witness ==
    /\ TypeCalled
    /\ typeCall.hasNode /\ ~typeCall.hasType /\ ~typeCall.resolves
    /\ typeNodeConverters # <<>> /\ typeCall.acceptNode = {}
    /\ Len(typeTypeConverters) = 2 /\ typeCall.acceptType # {}
    /\ typeCall.out.nodeScan = typeNodeConverters
    /\ typeCall.out.typeScan = <<>>
    /\ typeCall.out.result = None

(* ---- the visit stack across convertNode calls (under SpecNode) ---- *)

\* The nodes of the active calls below call i, outermost first.
NodesBelow(i) == [j \in 1..(i - 1) |-> frames[j].node]

\* C17: a convertNode call that has returned has left the visit stack as it
\* found it; while a dispatched conversion runs the stack is the entry stack
\* of its call with the node appended, the entry stacks of all active calls
\* are untouched, so that nested calls see the nodes of the calls around
\* them as visited, and no call sees the node of a call that has returned.
C17_VisitStackRestored ==
    /\ Returned => visitStack = ret.entry
    /\ \A i \in 1..Len(frames) : frames[i].old = NodesBelow(i)
    /\ frames # <<>> =>
          LET top == frames[Len(frames)] IN visitStack = Append(top.old, top.node)
    /\ frames = <<>> => visitStack = <<>>

\* A dispatched call nested in the conversion of another node has returned.
C17_Witness ==
    /\ Len(frames) = 1
    /\ Returned
    /\ ret.conv # None /\ ret.node # frames[1].node
    /\ ret.entry = <<frames[1].node>>
    /\ visitStack = <<frames[1].node>>
    /\ frames[1].last = ret.node /\ ret.node > frames[1].node + 1

(* ---- the source files of a run (under Spec) ---- *)

\* The source files convertNode was called for at top level, in call order.
ConvertedFiles ==
    LET called == SelectSeq(events, LAMBDA ev : ev.e = "file")
    IN  [i \in 1..Len(called) |-> called[i].arg]

NotExcluded == SelectSeq(sourceFiles, LAMBDA f : f \notin excluded)

\* C18: in a run whose classifier result is empty, convertNode is called at
\* top level once for every source file that is not excluded, in the order
\* of the program, each call after the one before has returned and on the
\* same (empty) visit stack, and for no excluded source file.
C18_FilesInOrder ==
    /\ \A i \in 1..Len(ConvertedFiles) : ConvertedFiles[i] \notin excluded
    /\ (pc = "compiling" /\ errors = <<>>) =>
          /\ Len(ConvertedFiles) <= Len(NotExcluded)
          /\ ConvertedFiles = SubSeq(NotExcluded, 1, Len(ConvertedFiles))
          /\ frames # <<>> => frames[1].old = <<>> /\ frames[1].node = includedSourceFiles[fileIdx]
          /\ frames = <<>> => visitStack = <<>>
          /\ CountEvent("fileDone") =
                (IF frames # <<>> \/ Returned
                 THEN Len(ConvertedFiles) - 1 ELSE Len(ConvertedFiles))
    /\ (pc \in {"compiled", "resolving", "resolved", "done"} /\ errors = <<>>) =>
          /\ ConvertedFiles = NotExcluded
          /\ CountEvent("fileDone") = Len(NotExcluded)
    /\ \A i \in 1..Len(events) :
          (events[i].e = "file" /\ i < Len(events)) =>
              events[i + 1] = Event("fileDone", events[i].arg)

\* Two source files, neither excluded, converted in the order of the program.
C18_Witness ==
    /\ pc = "compiled" /\ errors = <<>>
    /\ Len(sourceFiles) = 2 /\ excluded = {}
    /\ sourceFiles[1] > sourceFiles[2]
    /\ ConvertedFiles = sourceFiles
    /\ CountEvent("fileDone") = 2

(* ---- failures thrown during a run (under SpecThrow) ---- *)

Thrown == HasEvent("throw")

C19_Failed ==
    /\ Thrown =>
          /\ pc = "failed"
          /\ CountEvent("throw") = 1
          /\ events[Len(events)].e = "throw"
          /\ result = NoCall
          /\ frames = <<>>
    /\ pc = "failed" => Thrown

C19_AfterFailure ==
    pc = "failed" => (pc' = "idle" /\ result' = NoCall /\ events' = <<>>)

\* C19: a failure thrown by a node converter, a type converter or an event
\* handler during convert is not caught: the run is over with it, convert
\* returns no result, and nothing of the pipeline happens after it: no
\* source file is converted and no resolve-begin, resolve, resolve-end or
\* end event fires.
C19_FailurePropagates == []C19_Failed /\ [][C19_AfterFailure]_vars

\* A converter threw in the first of two source files.
C19_Witness ==
    /\ pc = "failed"
    /\ Len(includedSourceFiles) = 2 /\ fileIdx = 1
    /\ ConvertedFiles = <<includedSourceFiles[1]>>
    /\ ~HasEvent("fileDone") /\ ~HasEvent("resolveBegin") /\ ~HasEvent("end")
    /\ result = NoCall

(* ---- the registries against a rebuild (under SpecNode) ---- *)

\* The registered node converters that declare kind k.
Declaring(k) == {c \in Range(children) \cap NodeConverterIds : k \in Supports(c)}

\* The one of them that was registered last.
LastDeclaring(k) ==
    CHOOSE c \in Declaring(k) :
        \A d \in Declaring(k) : IndexOf(children, d) <= IndexOf(children, c)

ChainHolds(chain, members) ==
    /\ Range(chain) = members
    /\ \A i, j \in 1..Len(chain) : i # j => chain[i] # chain[j]

\* C20: whatever components were added and removed, the registries are
\* what a rebuild from the registered converters in registration order
\* gives: a kind is in the dispatch table exactly if a registered node
\* converter declares it, and maps to the one registered last of those; each
\* type chain holds exactly the registered type converters with its
\* capability pair, each once.
C20_RebuildEquivalent ==
    /\ \A k \in Kinds :
          /\ k \in DOMAIN nodeConverters <=> Declaring(k) # {}
          /\ k \in DOMAIN nodeConverters => nodeConverters[k] = LastDeclaring(k)
    /\ ChainHolds(typeNodeConverters,
                  {c \in Range(children) \cap TypeConverterIds : caps[c] \in {"node", "both"}})
    /\ ChainHolds(typeTypeConverters,
                  {c \in Range(children) \cap TypeConverterIds : caps[c] \in {"type", "both"}})


====
